---- MODULE Spec2Model ----
(***************************************************************************)
(* Model of the Kamui CLI credential core: the credential store            *)
(* (config.Manager), the OAuth flow engine (auth.OAuthFlow) and the        *)
(* credential lifecycle manager (service.authService).                     *)
(*                                                                         *)
(* Strings are modelled as strings, "" being Go's empty string.  Times are *)
(* whole seconds; expires_at = 0 is Go's zero time.Time (IsZero).  Errors  *)
(* are sequences of strings: <<>> is nil and fmt.Errorf("p: %w", e) is     *)
(* <<"p">> \o e, so that the wrapped cause stays visible.                  *)
(***************************************************************************)
EXTENDS Integers, Sequences, FiniteSets, TLC

VARIABLES
    file,       \* the config file: <<>> when it does not exist, else <<json object>>
    now,        \* the wall clock, in seconds
    pc,         \* position of the running CLI invocation ("idle" between invocations)
    flow,       \* locals of the Login in progress (auth.OAuthFlow and authService.Login)
    codeChan,   \* codeChan of the Login in progress (capacity 1)
    errChan,    \* errChan of the Login in progress (capacity 1)
    server,     \* the callback listener: "none", "listening", "failed", "closed"
    blocked,    \* callback handler goroutines blocked on a channel send
    registered, \* platform side: redirect port of every client registered so far
    platform,   \* platform side: the projects with their apps
    procs,      \* CLI invocations running EnsureAuthenticated side by side, each with its locals
    ev          \* what the step just taken did / returned

vars == <<file, now, pc, flow, codeChan, errChan, server, blocked, registered,
          platform, procs, ev>>

----------------------------------------------------------------------------
(* Bounds of the model *)

MaxTime == 120            \* the clock stops advancing here
MaxRegistrations == 2     \* registrations the platform accepts in one run
MaxBlocked == 1           \* handler goroutines that may hang at once
MaxApps == 2              \* apps on the platform

(* Program constants *)

Minute == 60              \* time.Minute, the expiry buffer of Manager.IsLoggedIn
HTTPTimeout == 30         \* http.Client{Timeout: 30 * time.Second}
DefaultCallbackPort == 9876
PortRange == 10           \* findAvailablePort probes callbackPort .. callbackPort+9

DefaultAPIURL == "https://api.kamui-platform.com"
CustomAPIURL == "https://staging.example"

----------------------------------------------------------------------------
(* Values the environment can supply *)

AccessTokenValues == {"A1", "A2"}
RefreshTokenValues == {"", "R1"}        \* a token response may carry no refresh_token
ExpiresIns == {0, 90}                 \* expires_in; 0 is also "field absent"
NetDelays == {0, HTTPTimeout}         \* how long one HTTP call takes
TickSteps == {30}                     \* time passing between steps

Nil == <<>>

Wrap(msg, err) == <<msg>> \o err

----------------------------------------------------------------------------
(* config.Config and its JSON form *)

StringKeys == {"access_token", "refresh_token", "api_url", "client_id", "client_secret"}

EmptyConfig ==
    [access_token |-> "", refresh_token |-> "", expires_at |-> 0,
     api_url |-> "", client_id |-> "", client_secret |-> ""]

\* json.MarshalIndent(config): omitempty drops the empty strings; it has no
\* effect on the struct time.Time, so expires_at is always written.
Marshal(config) ==
    [k \in {"expires_at"} \cup {s \in StringKeys : config[s] # ""} |-> config[k]]

\* json.Unmarshal(data, &config): absent keys leave the zero value.
Unmarshal(data) ==
    [k \in DOMAIN EmptyConfig |-> IF k \in DOMAIN data THEN data[k] ELSE EmptyConfig[k]]

\* Mutant: the default API URL is not filled in.
Load_NoDefault(f) == IF f = <<>> THEN EmptyConfig ELSE Unmarshal(f[1])

\* Manager.Load on the file `f`
Load(f) ==
    IF f = <<>>
    THEN [EmptyConfig EXCEPT !.api_url = DefaultAPIURL]
    ELSE LET config == Unmarshal(f[1])
         IN  IF config.api_url = ""
             THEN [config EXCEPT !.api_url = DefaultAPIURL]
             ELSE config

\* Manager.Save: the file written
Save(config) == <<Marshal(config)>>

\* Mutant: Clear also forgets the client secret.
Clear_DropsSecret(f) ==
    Save([Load(f) EXCEPT !.access_token = "", !.refresh_token = "", !.expires_at = 0,
                         !.client_secret = ""])

\* Mutant: Clear resets the whole record.
Clear_WipesAll(f) == Save(EmptyConfig)

\* Manager.Clear on the file `f`: the file written
Clear(f) ==
    Save([Load(f) EXCEPT !.access_token = "", !.refresh_token = "", !.expires_at = 0])

\* Mutant: the expiry test without the one-minute buffer.
ManagerIsLoggedIn_NoBuffer(f, t) ==
    LET config == Load(f)
    IN  /\ config.access_token # ""
        /\ ~(config.expires_at # 0 /\ t > config.expires_at)

\* Mutant: the expiry test without the IsZero check.
ManagerIsLoggedIn_NoZeroCheck(f, t) ==
    LET config == Load(f)
    IN  /\ config.access_token # ""
        /\ ~(t + Minute > config.expires_at)

\* config.Manager.IsLoggedIn at time t
ManagerIsLoggedIn(f, t) ==
    LET config == Load(f)
    IN  /\ config.access_token # ""
        /\ ~(config.expires_at # 0 /\ t + Minute > config.expires_at)

\* Mutant: the stored token is returned whatever its expiry.
ManagerGetAccessToken_NoExpiry(f, t) ==
    LET config == Load(f)
    IN  IF config.access_token = ""
        THEN [token |-> "", err |-> <<"not logged in">>]
        ELSE [token |-> config.access_token, err |-> Nil]

\* config.Manager.GetAccessToken at time t: [token, err]
ManagerGetAccessToken(f, t) ==
    LET config == Load(f)
    IN  IF config.access_token = ""
        THEN [token |-> "", err |-> <<"not logged in">>]
        ELSE IF config.expires_at # 0 /\ t > config.expires_at
        THEN [token |-> "", err |-> <<"token expired">>]
        ELSE [token |-> config.access_token, err |-> Nil]

\* Manager.GetAPIURL
GetAPIURL(f) ==
    LET config == Load(f)
    IN  IF config.api_url = "" THEN DefaultAPIURL ELSE config.api_url

\* Mutant: the secret is not stored.
SaveClientCredentials_IdOnly(f, clientID, clientSecret) ==
    Save([Load(f) EXCEPT !.client_id = clientID])

\* Manager.SaveClientCredentials: the file written
SaveClientCredentials(f, clientID, clientSecret) ==
    Save([Load(f) EXCEPT !.client_id = clientID, !.client_secret = clientSecret])

\* Manager.SaveTokens at time t: the file written
SaveTokens(f, accessToken, refreshToken, expiresIn, t) ==
    LET config == [Load(f) EXCEPT !.access_token = accessToken,
                                  !.refresh_token = refreshToken]
    IN  Save(IF expiresIn > 0
             THEN [config EXCEPT !.expires_at = t + expiresIn]
             ELSE config)

----------------------------------------------------------------------------
(* Token endpoint replies.  kind "ok" is HTTP 200 with a token response,   *)
(* "status" any other HTTP status, "transport" a failed or timed-out call. *)

TokenReplies ==
    [kind : {"ok"}, status : {"200"}, access_token : AccessTokenValues,
     refresh_token : RefreshTokenValues, expires_in : ExpiresIns]
    \cup [kind : {"status"}, status : {"401"}]
    \cup [kind : {"transport"}, status : {""}]

NoReply == [kind |-> "none"]

\* Mutant: the status is not checked, an error body decodes to zero values.
RefreshTokens_IgnoresStatus(reply) ==
    IF reply.kind = "transport"
    THEN [err |-> <<"token refresh request failed", "transport">>]
    ELSE IF reply.status # "200"
    THEN [err |-> Nil, AccessToken |-> "", RefreshToken |-> "", ExpiresIn |-> 0]
    ELSE [err |-> Nil,
          AccessToken |-> reply.access_token,
          RefreshToken |-> reply.refresh_token,
          ExpiresIn |-> reply.expires_in]

\* OAuthFlow.RefreshTokens given the endpoint's reply: [err, result]
RefreshTokens(reply) ==
    IF reply.kind = "transport"
    THEN [err |-> <<"token refresh request failed", "transport">>]
    ELSE IF reply.status # "200"
    THEN [err |-> <<"token refresh failed with status", reply.status>>]
    ELSE [err |-> Nil,
          AccessToken |-> reply.access_token,
          RefreshToken |-> reply.refresh_token,
          ExpiresIn |-> reply.expires_in]

----------------------------------------------------------------------------
(* auth.OAuthFlow *)

CandidatePorts == DefaultCallbackPort .. (DefaultCallbackPort + PortRange - 1)

\* Which candidate ports another process holds when Login probes them.
BusySets == {{}, {DefaultCallbackPort}, CandidatePorts}

Nonces == {"n1"}                      \* values generateRandomState can return
ClientIDs == <<"c1", "c2", "c3", "c4">>  \* the platform's n-th registration gets ClientIDs[n]

\* The loop of OAuthFlow.findAvailablePort from `port` on; 0 is the error
\* "no available port found".
RECURSIVE ProbeFrom(_, _, _)
ProbeFrom(port, limit, busy) ==
    IF port >= limit THEN 0
    ELSE IF port \notin busy THEN port
    ELSE ProbeFrom(port + 1, limit, busy)

\* Mutant: the probe starts one port above the default.
findAvailablePort_SkipsDefault(callbackPort, busy) ==
    ProbeFrom(callbackPort + 1, callbackPort + PortRange, busy)

\* OAuthFlow.findAvailablePort
findAvailablePort(callbackPort, busy) ==
    ProbeFrom(callbackPort, callbackPort + PortRange, busy)

\* The registration endpoint's replies
RegistrationReplies ==
    [kind : {"ok"}, status : {"200", "201"}, client_secret : {"s1"}]
    \cup [kind : {"status"}, status : {"422", "500"}]
    \cup [kind : {"transport"}, status : {""}]

\* Mutant: the status is not checked, an error body decodes to zero values.
RegisterClient_IgnoresStatus(reply, clientID) ==
    IF reply.kind = "transport"
    THEN [err |-> <<"registration request failed", "transport">>]
    ELSE IF reply.kind = "status"
    THEN [err |-> Nil, ClientID |-> "", ClientSecret |-> ""]
    ELSE [err |-> Nil, ClientID |-> clientID, ClientSecret |-> reply.client_secret]

\* OAuthFlow.RegisterClient given the endpoint's reply; clientID is the id
\* the platform issues when it accepts.
RegisterClient(reply, clientID) ==
    IF reply.kind = "transport"
    THEN [err |-> <<"registration request failed", "transport">>]
    ELSE IF reply.status # "201" /\ reply.status # "200"
    THEN [err |-> <<"client registration failed with status", reply.status>>]
    ELSE [err |-> Nil, ClientID |-> clientID, ClientSecret |-> reply.client_secret]

\* OAuthFlow.exchangeCodeForTokens given the endpoint's reply
exchangeCodeForTokens(reply) ==
    IF reply.kind = "transport"
    THEN [err |-> <<"token exchange request failed", "transport">>]
    ELSE IF reply.status # "200"
    THEN [err |-> <<"token exchange failed with status", reply.status>>]
    ELSE [err |-> Nil,
          AccessToken |-> reply.access_token,
          RefreshToken |-> reply.refresh_token,
          ExpiresIn |-> reply.expires_in]

\* Requests that can reach GET /callback
CallbackRequests ==
    {r \in [state : Nonces \cup {"", "wrong"}, error : {"", "access_denied"},
            error_description : {"", "denied"}, code : {"", "code1"}] :
        (r.error = "") = (r.error_description = "")}

\* What a handler sends: on errChan an error, on codeChan a code.  With a
\* code, `state` remembers the state parameter of the request that carried it.
ErrMsg(err, req) == [chan |-> "err", err |-> err, code |-> "", state |-> ""]
CodeMsg(code, req) == [chan |-> "code", err |-> Nil, code |-> code, state |-> req.state]

\* Mutant: the state parameter is not compared.
HandleCallback_NoStateCheck(req, expectedState) ==
    IF req.error # ""
    THEN ErrMsg(<<"OAuth error", req.error, req.error_description>>, req)
    ELSE IF req.code = ""
    THEN ErrMsg(<<"no authorization code received">>, req)
    ELSE CodeMsg(req.code, req)

\* Mutant: the code parameter is looked at before the error parameter.
HandleCallback_CodeBeforeError(req, expectedState) ==
    IF req.state # expectedState
    THEN ErrMsg(<<"state mismatch">>, req)
    ELSE IF req.code # ""
    THEN CodeMsg(req.code, req)
    ELSE IF req.error # ""
    THEN ErrMsg(<<"OAuth error", req.error, req.error_description>>, req)
    ELSE ErrMsg(<<"no authorization code received">>, req)

\* The /callback handler of startCallbackServer: the one channel send it makes
HandleCallback(req, expectedState) ==
    IF req.state # expectedState
    THEN ErrMsg(<<"state mismatch">>, req)
    ELSE IF req.error # ""
    THEN ErrMsg(<<"OAuth error", req.error, req.error_description>>, req)
    ELSE IF req.code = ""
    THEN ErrMsg(<<"no authorization code received">>, req)
    ELSE CodeMsg(req.code, req)

\* fmt.Sprintf("http://localhost:%d/callback", port)
RedirectURI(port) == <<"http://localhost:", port, "/callback">>

\* OAuthFlow.buildAuthURL: the query parameters of the URL opened
buildAuthURL(clientID, redirectURI, state) ==
    [client_id |-> clientID, redirect_uri |-> redirectURI, response_type |-> "code",
     scope |-> "full", state |-> state]

\* The form exchangeCodeForTokens posts to /oauth/token; client_secret is set
\* only when there is one.
TokenRequest(clientID, clientSecret, code, redirectURI) ==
    [grant_type |-> "authorization_code", code |-> code, redirect_uri |-> redirectURI,
     client_id |-> clientID]
        @@ (IF clientSecret # "" THEN [client_secret |-> clientSecret] ELSE <<>>)

\* OAuthFlow.GetClientCredentials: <<>> is nil
FlowGetClientCredentials(f) ==
    IF f.clientID = "" THEN <<>>
    ELSE <<[ClientID |-> f.clientID, ClientSecret |-> f.clientSecret]>>

NoResult == [err |-> Nil]

\* auth.NewOAuthFlow plus the locals of the two Login functions, and four
\* history fields: `first` is the channel of the first send a handler
\* completed ("code", "err"; "" while none has), `path` the case the select
\* took ("code", "err", "cancel", "timeout"; "" before it), `authURL` the
\* authorization URL opened and `tokenRequest` the token exchange posted
\* (<<>> while there is none).
NewOAuthFlow(apiURL) ==
    [running |-> TRUE, apiURL |-> apiURL, clientID |-> "", clientSecret |-> "",
     storedClientID |-> "", port |-> 0, state |-> "",
     code |-> "", codeState |-> "", result |-> NoResult,
     first |-> "", path |-> "", authURL |-> <<>>, tokenRequest |-> <<>>]

\* OAuthFlow.SetClientCredentials
SetClientCredentials(f, clientID, clientSecret) ==
    [f EXCEPT !.clientID = clientID, !.clientSecret = clientSecret]

----------------------------------------------------------------------------
(* service.authService *)

ErrNotLoggedIn == <<"not logged in. Please run 'kamui login' first">>
\* Mutant: an expired session is reported as not logged in.
ErrSessionExpired_AsNotLoggedIn == ErrNotLoggedIn

ErrSessionExpired == <<"session expired. Please run 'kamui login' again">>
LoginAgain == "Please run 'kamui login' again"

\* Mutant: only the refresh token is looked at.
IsLoggedIn_RefreshOnly(f) == Load(f).refresh_token # ""

\* Mutant: logged in whenever a config file exists.
IsLoggedIn_FileExists(f) == f # <<>>

\* authService.IsLoggedIn
IsLoggedIn(f) ==
    LET cfg == Load(f)
    IN  cfg.access_token # "" \/ cfg.refresh_token # ""

\* authService.EnsureAuthenticated started at time t on file f, the token
\* endpoint answering `reply` after `d` seconds if it is asked.
\* Result: the error returned, the file and clock afterwards, and what was done.
EnsureAuthenticatedResult(f, t, reply, d) ==
    LET cfg == Load(f)
        quiet == [file |-> f, now |-> t, refreshCalls |-> 0, netCalls |-> 0,
                  saved |-> FALSE, reply |-> NoReply]
    IN  IF cfg.access_token = "" /\ cfg.refresh_token = ""
        THEN quiet @@ [err |-> ErrNotLoggedIn]
        ELSE IF ManagerIsLoggedIn(f, t)
        THEN quiet @@ [err |-> Nil]
        ELSE IF cfg.refresh_token = ""
        THEN quiet @@ [err |-> ErrSessionExpired]
        ELSE LET result == RefreshTokens(reply)
                 called == [quiet EXCEPT !.now = t + d, !.refreshCalls = 1, !.netCalls = 1,
                                        !.reply = reply]
             IN  IF result.err # Nil
                 THEN called @@ [err |-> Wrap("failed to refresh token", result.err \o <<LoginAgain>>)]
                 ELSE [called EXCEPT
                          !.file = SaveTokens(f, result.AccessToken, result.RefreshToken,
                                              result.ExpiresIn, t + d),
                          !.saved = TRUE] @@ [err |-> Nil]

\* Whether EnsureAuthenticated on file f at time t gets as far as its call of
\* RefreshTokens; only then is the token endpoint asked.
ReachesRefresh(f, t) ==
    LET cfg == Load(f)
    IN  /\ ~(cfg.access_token = "" /\ cfg.refresh_token = "")
        /\ ~ManagerIsLoggedIn(f, t)
        /\ cfg.refresh_token # ""

\* The replies and delays of the HTTP call such a command makes, if any
RepliesFor(f, t) == IF ReachesRefresh(f, t) THEN TokenReplies ELSE {NoReply}
DelaysFor(f, t) == IF ReachesRefresh(f, t) THEN NetDelays ELSE {0}

\* authService.GetAccessToken: EnsureAuthenticated, then Manager.GetAccessToken
GetAccessTokenResult(f, t, reply, d) ==
    LET r == EnsureAuthenticatedResult(f, t, reply, d)
    IN  IF r.err # Nil
        THEN r @@ [token |-> ""]
        ELSE LET g == ManagerGetAccessToken(r.file, r.now)
             IN  [r EXCEPT !.err = g.err] @@ [token |-> g.token]

----------------------------------------------------------------------------
(* Actions.  Every action leaves in ev the command that returned in this   *)
(* step (cmd, "" if none), what it returned and, for the commands on the   *)
(* stored record, the file and the clock it started from; for Login, the   *)
(* flow it ended with.                                                     *)

FlowVarsUnchanged == UNCHANGED <<pc, flow, codeChan, errChan, server, blocked, registered>>

LoginVarsUnchanged == FlowVarsUnchanged /\ UNCHANGED <<platform, procs>>

NoFlow == [running |-> FALSE]

NoEv == [cmd |-> ""]

\* No projects on the platform; no invocation running beside this one
NoPlatform == <<>>
NoProcs == <<>>

\* Time passes.  Within a Login the clock is read only by the final save, so
\* time passing during a Login is time passing before it: the clock advances
\* between commands, and inside EnsureAuthenticated during the HTTP call.
Tick ==
    /\ pc = "idle"
    /\ \E d \in TickSteps :
          /\ now + d <= MaxTime
          /\ now' = now + d
    /\ ev' = NoEv
    /\ UNCHANGED file
    /\ LoginVarsUnchanged

\* One call of authService.EnsureAuthenticated
EnsureAuthenticated ==
    /\ pc = "idle"
    /\ \E reply \in RepliesFor(file, now), d \in DelaysFor(file, now) :
          LET r == EnsureAuthenticatedResult(file, now, reply, d)
          IN  /\ r.now <= MaxTime
              /\ file' = r.file
              /\ now' = r.now
              /\ ev' = [cmd |-> "EnsureAuthenticated", before |-> file, start |-> now,
                        err |-> r.err,
                        refreshCalls |-> r.refreshCalls, netCalls |-> r.netCalls,
                        saved |-> r.saved, reply |-> r.reply]
    /\ LoginVarsUnchanged

\* One call of authService.GetAccessToken
GetAccessToken ==
    /\ pc = "idle"
    /\ \E reply \in RepliesFor(file, now), d \in DelaysFor(file, now) :
          LET r == GetAccessTokenResult(file, now, reply, d)
          IN  /\ r.now <= MaxTime
              /\ file' = r.file
              /\ now' = r.now
              /\ ev' = [cmd |-> "GetAccessToken", before |-> file, start |-> now,
                        err |-> r.err, token |-> r.token,
                        refreshCalls |-> r.refreshCalls, netCalls |-> r.netCalls,
                        saved |-> r.saved, reply |-> r.reply]
    /\ LoginVarsUnchanged

\* One call of authService.Logout
Logout ==
    /\ pc = "idle"
    /\ LET cfg == Load(file)
       IN  IF cfg.access_token = "" /\ cfg.refresh_token = ""
           THEN /\ ev' = [cmd |-> "Logout", before |-> file, err |-> <<"not logged in">>]
                /\ UNCHANGED file
           ELSE /\ file' = Clear(file)
                /\ ev' = [cmd |-> "Logout", before |-> file, err |-> Nil]
    /\ UNCHANGED now
    /\ LoginVarsUnchanged

(* authService.Login, one action per blocking point *)

\* authService.Login returns err before any listener exists; reply is the
\* registration endpoint's answer if it was asked.
LoginFails(err, reply) ==
    /\ ev' = [cmd |-> "Login", before |-> file, flow |-> flow, err |-> err, reply |-> reply]
    /\ pc' = "idle"
    /\ flow' = NoFlow
    /\ UNCHANGED <<platform, procs, file, now, codeChan, errChan, server, blocked, registered>>

\* OAuthFlow.Login from generateRandomState to the select: the nonce, the two
\* channels, the listener (its bind can lose the port to another process,
\* which ListenAndServe's ignored error hides) and the browser.
StartCallbackServer(f) ==
    \E n \in Nonces, bound \in BOOLEAN :
        /\ flow' = [f EXCEPT !.state = n,
                              !.authURL = <<buildAuthURL(f.clientID, RedirectURI(f.port), n)>>]
        /\ codeChan' = <<>>
        /\ errChan' = <<>>
        /\ server' = IF bound THEN "listening" ELSE "failed"
        /\ pc' = "waiting"
        /\ ev' = NoEv

\* authService.Login up to the first network call or the wait
LoginStart ==
    /\ pc = "idle"
    /\ IF IsLoggedIn(file)
       THEN LoginFails(<<"already logged in. Use 'kamui logout' first to log out">>, NoReply)
       ELSE \E busy \in BusySets :
              LET cfg == Load(file)
                  new == NewOAuthFlow(GetAPIURL(file))
                  oauthFlow == IF cfg.client_id # ""
                               THEN SetClientCredentials(new, cfg.client_id, cfg.client_secret)
                               ELSE new
                  port == findAvailablePort(DefaultCallbackPort, busy)
                  f == [oauthFlow EXCEPT !.storedClientID = cfg.client_id, !.port = port]
              IN  IF port = 0
                  THEN LoginFails(
                                  Wrap("authentication failed",
                                       Wrap("failed to find available port",
                                            <<"no available port found">>)),
                                  NoReply)
                  ELSE IF f.clientID = ""
                  THEN /\ Len(registered) < MaxRegistrations
                       /\ Len(registered) < Len(ClientIDs)
                       /\ flow' = f
                       /\ pc' = "registering"
                       /\ ev' = NoEv
                       /\ UNCHANGED <<platform, procs, file, now, codeChan, errChan, server, blocked, registered>>
                  ELSE /\ StartCallbackServer(f)
                       /\ UNCHANGED <<platform, procs, file, now, blocked, registered>>

\* OAuthFlow.Login: the RegisterClient call returns.
LoginRegister ==
    /\ pc = "registering"
    /\ \E reply \in RegistrationReplies :
          LET creds == RegisterClient(reply, ClientIDs[Len(registered) + 1])
          IN  IF creds.err # Nil
              THEN LoginFails(
                              Wrap("authentication failed",
                                   Wrap("failed to register client", creds.err)),
                              reply)
              ELSE /\ registered' = Append(registered, flow.port)
                   /\ StartCallbackServer(
                          [flow EXCEPT !.clientID = creds.ClientID,
                                       !.clientSecret = creds.ClientSecret])
                   /\ UNCHANGED <<platform, procs, file, now, blocked>>

\* A request reaches GET /callback: the handler runs up to its channel send,
\* which completes if the channel has room and blocks the goroutine if not.
Callback ==
    /\ server = "listening"
    /\ \E req \in CallbackRequests :
          LET msg == HandleCallback(req, flow.state)
              ch == IF msg.chan = "code" THEN codeChan ELSE errChan
          IN  /\ IF ch = <<>>
                 THEN /\ codeChan' = IF msg.chan = "code" THEN <<msg>> ELSE codeChan
                      /\ errChan' = IF msg.chan = "err" THEN <<msg>> ELSE errChan
                      /\ flow' = IF flow.first = "" THEN [flow EXCEPT !.first = msg.chan]
                                 ELSE flow
                      /\ UNCHANGED blocked
                 ELSE /\ Cardinality(blocked \cup {msg}) <= MaxBlocked
                      /\ blocked' = blocked \cup {msg}
                      /\ UNCHANGED <<codeChan, errChan, flow>>
              /\ ev' = NoEv
    /\ UNCHANGED <<platform, procs, file, now, pc, server, registered>>

\* A blocked handler's send completes once its channel has room.
HandlerResume ==
    /\ \E msg \in blocked :
          /\ IF msg.chan = "code" THEN codeChan = <<>> ELSE errChan = <<>>
          /\ codeChan' = IF msg.chan = "code" THEN <<msg>> ELSE codeChan
          /\ errChan' = IF msg.chan = "err" THEN <<msg>> ELSE errChan
          /\ blocked' = blocked \ {msg}
    /\ ev' = NoEv
    /\ UNCHANGED <<platform, procs, file, now, pc, flow, server, registered>>

\* Mutant: Login returns without the deferred Shutdown closing the listener.
BeginShutdown_KeepsListening ==
    /\ server' = server
    /\ pc' = "draining"

\* OAuthFlow.Login leaves the select with its result: the deferred
\* server.Shutdown(context.Background()) starts by closing the listener and
\* then waits for the running handlers.
BeginShutdown ==
    /\ server' = "closed"
    /\ pc' = "draining"

\* select: case code := <-codeChan; exchangeCodeForTokens posts its request
LoginRecvCode ==
    /\ pc = "waiting"
    /\ codeChan # <<>>
    /\ flow' = [flow EXCEPT !.code = Head(codeChan).code, !.codeState = Head(codeChan).state,
                            !.path = "code",
                            !.tokenRequest = <<TokenRequest(flow.clientID, flow.clientSecret,
                                                            Head(codeChan).code,
                                                            RedirectURI(flow.port))>>]
    /\ codeChan' = Tail(codeChan)
    /\ pc' = "exchanging"
    /\ ev' = NoEv
    /\ UNCHANGED <<platform, procs, file, now, errChan, server, blocked, registered>>

\* select: case err := <-errChan
LoginRecvErr ==
    /\ pc = "waiting"
    /\ errChan # <<>>
    /\ flow' = [flow EXCEPT !.result = [err |-> Head(errChan).err], !.path = "err"]
    /\ errChan' = Tail(errChan)
    /\ BeginShutdown
    /\ ev' = NoEv
    /\ UNCHANGED <<platform, procs, file, now, codeChan, blocked, registered>>

\* select: case <-ctx.Done()
LoginCancel ==
    /\ pc = "waiting"
    /\ flow' = [flow EXCEPT !.result = [err |-> <<"context canceled">>], !.path = "cancel"]
    /\ BeginShutdown
    /\ ev' = NoEv
    /\ UNCHANGED <<platform, procs, file, now, codeChan, errChan, blocked, registered>>

\* select: case <-time.After(5 * time.Minute).  The timer is an event of the
\* environment: how long five minutes are against the other three cases is
\* not modelled, so it may fire at any point of the wait.
LoginTimedOut ==
    /\ pc = "waiting"
    /\ flow' = [flow EXCEPT !.result = [err |-> <<"authentication timed out">>],
                            !.path = "timeout"]
    /\ BeginShutdown
    /\ ev' = NoEv
    /\ UNCHANGED <<platform, procs, file, now, codeChan, errChan, blocked, registered>>

\* exchangeCodeForTokens returns.
LoginExchange ==
    /\ pc = "exchanging"
    /\ \E reply \in TokenReplies :
          /\ flow' = [flow EXCEPT !.result = exchangeCodeForTokens(reply)]
          /\ ev' = NoEv
    /\ BeginShutdown
    /\ UNCHANGED <<platform, procs, file, now, codeChan, errChan, blocked, registered>>

\* Mutant: the client registration is saved before the error of the flow is
\* looked at.
LoginReturn_SavesClientFirst ==
    /\ pc = "draining"
    /\ blocked = {}
    /\ LET result == flow.result
           creds == FlowGetClientCredentials(flow)
           registeredNow == creds # <<>> /\ flow.storedClientID = ""
           withClient == IF registeredNow
                         THEN SaveClientCredentials(file, creds[1].ClientID,
                                                    creds[1].ClientSecret)
                         ELSE file
       IN  IF result.err # Nil
           THEN /\ ev' = [cmd |-> "Login", before |-> file, flow |-> flow,
                          err |-> Wrap("authentication failed", result.err),
                          reply |-> NoReply]
                /\ file' = withClient
           ELSE /\ file' = SaveTokens(withClient, result.AccessToken, result.RefreshToken,
                                      result.ExpiresIn, now)
                /\ ev' = [cmd |-> "Login", before |-> file, flow |-> flow, err |-> Nil,
                          reply |-> NoReply]
    /\ pc' = "idle"
    /\ flow' = NoFlow
    /\ server' = "none"
    /\ codeChan' = <<>>
    /\ errChan' = <<>>
    /\ UNCHANGED <<now, blocked, registered, platform, procs>>

\* The deferred server.Shutdown(context.Background()) returns once no handler
\* is running; OAuthFlow.Login returns and
\* authService.Login saves what it got.
LoginReturn ==
    /\ pc = "draining"
    /\ blocked = {}
    /\ LET result == flow.result
           creds == FlowGetClientCredentials(flow)
           registeredNow == creds # <<>> /\ flow.storedClientID = ""
       IN  IF result.err # Nil
           THEN /\ ev' = [cmd |-> "Login", before |-> file, flow |-> flow,
                          err |-> Wrap("authentication failed", result.err),
                          reply |-> NoReply]
                /\ UNCHANGED file
           ELSE /\ file' = SaveTokens(IF registeredNow
                                      THEN SaveClientCredentials(file, creds[1].ClientID,
                                                                 creds[1].ClientSecret)
                                      ELSE file,
                                      result.AccessToken, result.RefreshToken,
                                      result.ExpiresIn, now)
                /\ ev' = [cmd |-> "Login", before |-> file, flow |-> flow, err |-> Nil,
                          reply |-> NoReply]
    /\ pc' = "idle"
    /\ flow' = NoFlow
    /\ server' = "none"
    /\ codeChan' = <<>>
    /\ errChan' = <<>>
    /\ UNCHANGED <<now, blocked, registered, platform, procs>>

----------------------------------------------------------------------------

Init ==
    /\ file \in {<<>>, <<[api_url |-> CustomAPIURL]>>}
    /\ now = 0
    /\ pc = "idle"
    /\ flow = NoFlow
    /\ codeChan = <<>>
    /\ errChan = <<>>
    /\ server = "none"
    /\ blocked = {}
    /\ registered = <<>>
    /\ platform = NoPlatform
    /\ procs = NoProcs
    /\ ev = NoEv

Next ==
    \/ Tick
    \/ EnsureAuthenticated
    \/ GetAccessToken
    \/ Logout
    \/ LoginStart
    \/ LoginRegister
    \/ Callback
    \/ HandlerResume
    \/ LoginRecvCode
    \/ LoginRecvErr
    \/ LoginCancel
    \/ LoginTimedOut
    \/ LoginExchange
    \/ LoginReturn

Spec == Init /\ [][Next]_vars

\* Login and Logout alone, with the progress the code can count on: an HTTP
\* call returns (its client has a 30 second timeout), the five-minute timer
\* of the select fires if the wait lasts, a handler's send completes when its
\* channel has room, and Login returns once Shutdown has.
LoginNext ==
    \/ Logout
    \/ LoginStart
    \/ LoginRegister
    \/ Callback
    \/ HandlerResume
    \/ LoginRecvCode
    \/ LoginRecvErr
    \/ LoginCancel
    \/ LoginTimedOut
    \/ LoginExchange
    \/ LoginReturn

LoginSpec ==
    /\ Init
    /\ [][LoginNext]_vars
    /\ WF_vars(LoginRegister)
    /\ WF_vars(LoginTimedOut)
    /\ WF_vars(LoginExchange)
    /\ WF_vars(HandlerResume)
    /\ WF_vars(LoginReturn)

----------------------------------------------------------------------------
(* The commands that work on the stored record, started on every record a  *)
(* config file can hold (within the value sets above) instead of on the    *)
(* records earlier Logins left.                                            *)

StoredConfigs ==
    [access_token : AccessTokenValues \cup {""},
     refresh_token : RefreshTokenValues,
     expires_at : {0, 90},
     api_url : {"", CustomAPIURL},
     client_id : {"", "c1"},
     client_secret : {"", "s1"}]

StoreInit ==
    /\ file \in {<<>>} \cup {Save(config) : config \in StoredConfigs}
    /\ now = 0
    /\ pc = "idle"
    /\ flow = NoFlow
    /\ codeChan = <<>>
    /\ errChan = <<>>
    /\ server = "none"
    /\ blocked = {}
    /\ registered = <<>>
    /\ platform = NoPlatform
    /\ procs = NoProcs
    /\ ev = NoEv

StoreNext ==
    \/ Tick
    \/ EnsureAuthenticated
    \/ GetAccessToken
    \/ Logout

StoreSpec == StoreInit /\ [][StoreNext]_vars

----------------------------------------------------------------------------
(* Two CLI invocations running authService.EnsureAuthenticated side by     *)
(* side on one config file.  Nothing locks the file, so every read and     *)
(* every system call of a write is a step of its own.  os.WriteFile is     *)
(* open(O_WRONLY|O_CREATE|O_TRUNC), write, close: the open empties the     *)
(* file, the write puts the data at offset 0 of what the file then holds.  *)

Invocations == {"p", "q"}

\* A file emptied by an open, and a file whose bytes are no JSON document
Truncated == <<[truncated |-> TRUE]>>
Torn(n) == <<[torn |-> TRUE, bytes |-> n]>>

\* json.Unmarshal accepts the file (or there is none)
Readable(f) == f = <<>> \/ DOMAIN f[1] \cap {"truncated", "torn"} = {}

\* Length of a string value of the model, of a key's name, and of the
\* RFC 3339 text of a time (the zero time is "0001-01-01T00:00:00Z")
StringBytes(v) ==
    IF v = DefaultAPIURL THEN 30 ELSE IF v = CustomAPIURL THEN 23 ELSE 2
KeyBytes ==
    [access_token |-> 12, refresh_token |-> 13, expires_at |-> 10, api_url |-> 7,
     client_id |-> 9, client_secret |-> 13]
TimeBytes(t) == IF t = 0 THEN 20 ELSE 35

\* Bytes of json.MarshalIndent(config, "", "  "): "{\n", one line
\* `  "key": "value",\n` per key written, "}"
RECURSIVE LinesBytes(_, _)
LinesBytes(data, keys) ==
    IF keys = {} THEN 0
    ELSE LET k == CHOOSE x \in keys : TRUE
             v == IF k = "expires_at" THEN TimeBytes(data[k]) ELSE StringBytes(data[k])
         IN  KeyBytes[k] + v + 10 + LinesBytes(data, keys \ {k})

FileBytes(f) ==
    IF f = <<>> \/ f = Truncated THEN 0
    ELSE IF ~Readable(f) THEN f[1].bytes
    ELSE 2 + LinesBytes(f[1], DOMAIN f[1])

\* write(fd, data) at offset 0 of the file as it is now
WriteAtStart(f, data) ==
    IF FileBytes(<<data>>) >= FileBytes(f) THEN <<data>> ELSE Torn(FileBytes(f))

\* The locals of one invocation: where it is, the cfg it loaded, the result
\* of its refresh, the bytes it is about to write, the error it returned,
\* and `order`: its write was the order-th to complete (0: it has not written)
NewInvocation ==
    [pc |-> "load", cfg |-> EmptyConfig, result |-> NoResult, data |-> <<>>,
     err |-> Nil, order |-> 0]

Returns(p, err) == procs' = [procs EXCEPT ![p].pc = "done", ![p].err = err]

Goes(p, to) == procs' = [procs EXCEPT ![p].pc = to]

RaceVarsUnchanged ==
    /\ FlowVarsUnchanged
    /\ UNCHANGED <<platform, now>>
    /\ ev' = NoEv

\* cfg, err := s.configManager.Load() and the not-logged-in test
RaceLoad(p) ==
    /\ procs[p].pc = "load"
    /\ IF ~Readable(file)
       THEN Returns(p, <<"failed to load config", "invalid JSON">>)
       ELSE LET cfg == Load(file)
            IN  IF cfg.access_token = "" /\ cfg.refresh_token = ""
                THEN Returns(p, ErrNotLoggedIn)
                ELSE procs' = [procs EXCEPT ![p].pc = "check", ![p].cfg = cfg]
    /\ UNCHANGED file
    /\ RaceVarsUnchanged

\* s.configManager.IsLoggedIn(), which loads the file again (false if that
\* fails), and the refresh-token test
RaceCheck(p) ==
    /\ procs[p].pc = "check"
    /\ IF Readable(file) /\ ManagerIsLoggedIn(file, now)
       THEN Returns(p, Nil)
       ELSE IF procs[p].cfg.refresh_token = ""
       THEN Returns(p, ErrSessionExpired)
       ELSE Goes(p, "url")
    /\ UNCHANGED file
    /\ RaceVarsUnchanged

\* s.configManager.GetAPIURL(), a third load
RaceGetAPIURL(p) ==
    /\ procs[p].pc = "url"
    /\ IF ~Readable(file)
       THEN Returns(p, <<"failed to get API URL", "invalid JSON">>)
       ELSE Goes(p, "refresh")
    /\ UNCHANGED file
    /\ RaceVarsUnchanged

\* oauthFlow.RefreshTokens(ctx, cfg.RefreshToken) returns
RaceRefresh(p) ==
    /\ procs[p].pc = "refresh"
    /\ \E reply \in TokenReplies :
          LET result == RefreshTokens(reply)
          IN  IF result.err # Nil
              THEN Returns(p, Wrap("failed to refresh token", result.err \o <<LoginAgain>>))
              ELSE procs' = [procs EXCEPT ![p].pc = "save", ![p].result = result]
    /\ UNCHANGED file
    /\ RaceVarsUnchanged

\* Manager.SaveTokens up to json.MarshalIndent: its own Load, the three
\* fields set, the bytes to write
RaceMarshal(p) ==
    /\ procs[p].pc = "save"
    /\ IF ~Readable(file)
       THEN Returns(p, <<"failed to save refreshed tokens", "invalid JSON">>)
       ELSE LET r == procs[p].result
            IN  procs' = [procs EXCEPT
                            ![p].pc = "open",
                            ![p].data = SaveTokens(file, r.AccessToken, r.RefreshToken,
                                                   r.ExpiresIn, now)[1]]
    /\ UNCHANGED file
    /\ RaceVarsUnchanged

\* os.WriteFile: the open, which empties the file
RaceOpen(p) ==
    /\ procs[p].pc = "open"
    /\ file' = Truncated
    /\ Goes(p, "write")
    /\ RaceVarsUnchanged

\* os.WriteFile: the write and the close; EnsureAuthenticated returns nil
RaceWrite(p) ==
    /\ procs[p].pc = "write"
    /\ file' = WriteAtStart(file, procs[p].data)
    /\ procs' = [procs EXCEPT
                    ![p].pc = "done",
                    ![p].order = 1 + Cardinality({q \in Invocations : procs[q].order > 0})]
    /\ RaceVarsUnchanged

\* Time passes between the steps of the invocations.
RaceTick ==
    /\ \E d \in TickSteps :
          /\ now + d <= MaxTime
          /\ now' = now + d
    /\ ev' = NoEv
    /\ UNCHANGED <<file, procs, platform>>
    /\ FlowVarsUnchanged

\* Records the invocations can find: left by a Login or a refresh, with the
\* client registration of that Login
RaceConfigs ==
    [access_token : {"A1"}, refresh_token : RefreshTokenValues, expires_at : {0, 90},
     api_url : {DefaultAPIURL, CustomAPIURL}, client_id : {"c1"}, client_secret : {"s1"}]

RaceInit ==
    /\ file \in {Save(config) : config \in RaceConfigs}
    /\ now \in {0, 60}
    /\ procs = [p \in Invocations |-> NewInvocation]
    /\ pc = "idle"
    /\ flow = NoFlow
    /\ codeChan = <<>>
    /\ errChan = <<>>
    /\ server = "none"
    /\ blocked = {}
    /\ registered = <<>>
    /\ platform = NoPlatform
    /\ ev = NoEv

RaceNext ==
    \/ RaceTick
    \/ \E p \in Invocations :
          \/ RaceLoad(p)
          \/ RaceCheck(p)
          \/ RaceGetAPIURL(p)
          \/ RaceRefresh(p)
          \/ RaceMarshal(p)
          \/ RaceOpen(p)
          \/ RaceWrite(p)

RaceSpec == RaceInit /\ [][RaceNext]_vars

----------------------------------------------------------------------------
(* kamui apps delete <name-or-id>.  Strings that the command compares or   *)
(* takes prefixes of (ids, app names, display names, the argument) are     *)
(* sequences of letters: <<"a", "b">> is "ab" and <<>> is "".              *)

Strs == {<<"a">>, <<"a", "b">>, <<"b">>}
Args == Strs \cup {<<>>}
DisplayNames == {<<"a">>, <<"b">>}

\* strings.HasPrefix(s, prefix)
HasPrefix(s, prefix) ==
    Len(prefix) <= Len(s) /\ SubSeq(s, 1, Len(prefix)) = prefix

\* The apps of the platform: iface.App as ListProjects returns it (ID, Name)
\* with the DisplayName GetApp returns for it
AppRecords == [ID : Strs, Name : Strs, DisplayName : DisplayNames]

AppLists ==
    {l \in UNION {[1..n -> AppRecords] : n \in 0..MaxApps} :
        \A i, j \in DOMAIN l : i # j => l[i].ID # l[j].ID}

\* The projects of the platform: every app list in one project, or its first
\* app in one project and the others in a second
Platforms ==
    {<<>>}
    \cup {<<[ID |-> "p1", Name |-> "one", Apps |-> l]>> : l \in AppLists}
    \cup {<<[ID |-> "p1", Name |-> "one", Apps |-> SubSeq(l, 1, 1)],
            [ID |-> "p2", Name |-> "two", Apps |-> SubSeq(l, 2, Len(l))]>> :
               l \in {m \in AppLists : Len(m) >= 2}}

\* The apps of all projects in the order of the two nested range loops, each
\* with the project it is in
RECURSIVE AllApps(_)
AllApps(projects) ==
    IF projects = <<>> THEN <<>>
    ELSE LET p == Head(projects)
         IN  [j \in DOMAIN p.Apps |->
                 [ID |-> p.Apps[j].ID, Name |-> p.Apps[j].Name,
                  DisplayName |-> p.Apps[j].DisplayName,
                  ProjectID |-> p.ID, ProjectName |-> p.Name]]
             \o AllApps(Tail(projects))

\* What the user does at the prompt: "flag" is --yes (no prompt), "interrupt"
\* makes survey.AskOne return an error
Confirmations == {"flag", "yes", "no", "interrupt"}

NoCalls == <<>>

\* AppsDeleteCommand.Run(nameOrID) on the projects ListProjects returns.
\* getAppFails: the app ids for which GetApp fails during the run;
\* detailFails: the final GetApp of the resolved app fails;
\* deleteFails: DeleteApp fails.  Result: the error returned and the ids
\* DeleteApp was called with.
AppsDeleteRun(projects, nameOrID, listFails, getAppFails, detailFails, confirm, deleteFails) ==
    LET apps == AllApps(projects)
        IsID(app) == app.ID = nameOrID
        exactIDMatch == SelectSeq(apps, IsID)
        ByName(app) == app.Name = nameOrID \/ HasPrefix(app.Name, nameOrID)
        ByDisplayName(app) == app.ID \notin getAppFails /\ app.DisplayName = nameOrID
        byName == SelectSeq(apps, ByName)
        matches == IF Len(byName) = 0 THEN SelectSeq(apps, ByDisplayName) ELSE byName
        found == IF exactIDMatch # <<>> THEN exactIDMatch[1] ELSE matches[1]
    IN  IF listFails
        THEN [err |-> <<"failed to fetch projects", "transport">>, deleteCalls |-> NoCalls]
        ELSE IF exactIDMatch = <<>> /\ Len(matches) = 0
        THEN [err |-> <<"app not found">>, deleteCalls |-> NoCalls]
        ELSE IF exactIDMatch = <<>> /\ Len(matches) > 1
        THEN [err |-> <<"please specify the app by ID to avoid ambiguity">>,
              deleteCalls |-> NoCalls]
        ELSE IF found.ID \in getAppFails \/ detailFails
        THEN [err |-> <<"failed to fetch app details", "failed to fetch app", "transport">>,
              deleteCalls |-> NoCalls]
        ELSE IF confirm = "interrupt"
        THEN [err |-> <<"interrupt">>, deleteCalls |-> NoCalls]
        ELSE IF confirm = "no"
        THEN [err |-> Nil, deleteCalls |-> NoCalls]
        ELSE IF deleteFails
        THEN [err |-> <<"failed to delete app", "transport">>, deleteCalls |-> <<found.ID>>]
        ELSE [err |-> Nil, deleteCalls |-> <<found.ID>>]

\* The platform after DeleteApp(id) succeeded
RECURSIVE WithoutApp(_, _)
WithoutApp(projects, id) ==
    IF projects = <<>> THEN <<>>
    ELSE LET p == Head(projects)
             Keep(app) == app.ID # id
         IN  <<[p EXCEPT !.Apps = SelectSeq(p.Apps, Keep)]>> \o WithoutApp(Tail(projects), id)

\* One run of kamui apps delete
AppsDelete ==
    /\ \E nameOrID \in Args, listFails, detailFails, deleteFails \in BOOLEAN,
          confirm \in Confirmations,
          getAppFails \in {{}} \cup {{app.ID} : app \in {AllApps(platform)[i] : i \in DOMAIN AllApps(platform)}} :
          LET r == AppsDeleteRun(platform, nameOrID, listFails, getAppFails, detailFails,
                                 confirm, deleteFails)
          IN  /\ platform' = IF r.deleteCalls # NoCalls /\ r.err = Nil
                             THEN WithoutApp(platform, r.deleteCalls[1])
                             ELSE platform
              /\ ev' = [cmd |-> "AppsDelete", before |-> platform, nameOrID |-> nameOrID,
                        listed |-> ~listFails, getAppFails |-> getAppFails,
                        err |-> r.err, deleteCalls |-> r.deleteCalls]
    /\ UNCHANGED <<file, now, procs>>
    /\ FlowVarsUnchanged

AppsInit ==
    /\ platform \in Platforms
    /\ file = <<>>
    /\ now = 0
    /\ pc = "idle"
    /\ flow = NoFlow
    /\ codeChan = <<>>
    /\ errChan = <<>>
    /\ server = "none"
    /\ blocked = {}
    /\ registered = <<>>
    /\ procs = NoProcs
    /\ ev = NoEv

AppsNext == AppsDelete

AppsSpec == AppsInit /\ [][AppsNext]_vars

----------------------------------------------------------------------------
(* The credential store on its own: Save, Load and Delete on every record  *)
(* of StoredConfigs.                                                       *)

\* Manager.Save(config)
SaveConfig ==
    /\ \E config \in StoredConfigs :
          /\ file' = Save(config)
          /\ ev' = [cmd |-> "Save", config |-> config, err |-> Nil]
    /\ UNCHANGED now
    /\ LoginVarsUnchanged

\* Manager.Load(); `saved` is the record the preceding step saved, if it saved one
LoadConfig ==
    /\ ev' = [cmd |-> "Load", before |-> file,
              saved |-> IF ev.cmd = "Save" THEN <<ev.config>> ELSE <<>>,
              config |-> Load(file), err |-> Nil]
    /\ UNCHANGED <<file, now>>
    /\ LoginVarsUnchanged

\* Manager.Delete(): the file is removed
DeleteConfig ==
    /\ file' = <<>>
    /\ ev' = [cmd |-> "Delete", err |-> Nil]
    /\ UNCHANGED now
    /\ LoginVarsUnchanged

ConfigNext ==
    \/ SaveConfig
    \/ LoadConfig
    \/ DeleteConfig

ConfigSpec == Init /\ [][ConfigNext]_vars

----------------------------------------------------------------------------
(* The flow engine on its own: findAvailablePort against many sets of held *)
(* ports, and Login against a registration endpoint that may also answer   *)
(* 200 or 201 with a body that carries no client_id.                       *)

\* Sets of candidate ports other processes can hold: at most two of the ten,
\* or all but at most two
AllBusySets ==
    {busy \in SUBSET CandidatePorts :
        Cardinality(busy) <= 2 \/ Cardinality(busy) >= PortRange - 2}

\* One call of OAuthFlow.findAvailablePort: each net.Listen that succeeds is
\* closed before the function returns, so no port stays bound.
Probe ==
    /\ pc = "idle"
    /\ \E busy \in AllBusySets :
          LET port == findAvailablePort(DefaultCallbackPort, busy)
          IN  ev' = [cmd |-> "findAvailablePort", busy |-> busy, port |-> port,
                    err |-> IF port = 0 THEN <<"no available port found">> ELSE Nil]
    /\ UNCHANGED <<file, now>>
    /\ LoginVarsUnchanged

\* A 200 or 201 whose JSON body has no client_id and no client_secret:
\* json.Decode leaves both fields of RegistrationResponse empty.
EmptyRegistrationReplies ==
    [kind : {"ok"}, status : {"200", "201"}, client_secret : {""}, client_id : {""}]

AnyRegistrationReplies == RegistrationReplies \cup EmptyRegistrationReplies

\* OAuthFlow.Login: the RegisterClient call returns, from such an endpoint.
LoginRegisterAny ==
    /\ pc = "registering"
    /\ \E reply \in AnyRegistrationReplies :
          LET issued == reply \notin EmptyRegistrationReplies
              creds == RegisterClient(reply, IF issued THEN ClientIDs[Len(registered) + 1]
                                             ELSE "")
          IN  IF creds.err # Nil
              THEN LoginFails(
                              Wrap("authentication failed",
                                   Wrap("failed to register client", creds.err)),
                              reply)
              ELSE /\ registered' = IF issued THEN Append(registered, flow.port)
                                    ELSE registered
                   /\ StartCallbackServer(
                          [flow EXCEPT !.clientID = creds.ClientID,
                                       !.clientSecret = creds.ClientSecret])
                   /\ UNCHANGED <<platform, procs, file, now, blocked>>

\* The probe, and Login as far as it goes without a callback
ProbeNext ==
    \/ Probe
    \/ LoginStart
    \/ LoginRegister
    \/ LoginCancel
    \/ LoginReturn

ProbeSpec == Init /\ [][ProbeNext]_vars

FlowNext ==
    \/ Logout
    \/ LoginStart
    \/ LoginRegisterAny
    \/ Callback
    \/ HandlerResume
    \/ LoginRecvCode
    \/ LoginRecvErr
    \/ LoginCancel
    \/ LoginTimedOut
    \/ LoginExchange
    \/ LoginReturn

FlowSpec == Init /\ [][FlowNext]_vars

----------------------------------------------------------------------------
(* The API-backed operations of projectService and appService.  Each one   *)
(* builds its client with getAPIClient and makes one request with it.      *)

\* api.NewClient(baseURL, token)
NewClient(baseURL, token) == [baseURL |-> baseURL, token |-> token]

NoClient == <<>>

\* Client.Request: the request sent, with its Authorization header (<<>> when
\* the client has no token)
Request(client, op) ==
    [op |-> op, baseURL |-> client.baseURL,
     Authorization |-> IF client.token # "" THEN <<"Bearer", client.token>> ELSE <<>>]

\* projectService.ensureAuthenticated, with the result fields of EnsureAuthenticatedResult
projectService_ensureAuthenticated(f, t, reply, d) ==
    LET cfg == Load(f)
        quiet == [file |-> f, now |-> t, refreshCalls |-> 0, netCalls |-> 0,
                  saved |-> FALSE, reply |-> NoReply]
    IN  IF cfg.access_token = "" /\ cfg.refresh_token = ""
        THEN quiet @@ [err |-> <<"not logged in. Please run 'kamui login' first">>]
        ELSE IF ManagerIsLoggedIn(f, t)
        THEN quiet @@ [err |-> Nil]
        ELSE IF cfg.refresh_token = ""
        THEN quiet @@ [err |-> <<"session expired. Please run 'kamui login' again">>]
        ELSE LET result == RefreshTokens(reply)
                 called == [quiet EXCEPT !.now = t + d, !.refreshCalls = 1, !.netCalls = 1,
                                        !.reply = reply]
             IN  IF result.err # Nil
                 THEN called @@ [err |-> Wrap("failed to refresh token",
                                              result.err \o <<"Please run 'kamui login' again">>)]
                 ELSE [called EXCEPT
                          !.file = SaveTokens(f, result.AccessToken, result.RefreshToken,
                                              result.ExpiresIn, t + d),
                          !.saved = TRUE] @@ [err |-> Nil]

\* Mutant: the API client is built from the file as it was before the
\* evaluation.
projectService_getAPIClient_StaleToken(f, t, reply, d) ==
    LET r == projectService_ensureAuthenticated(f, t, reply, d)
        g == ManagerGetAccessToken(f, t)
    IN  IF r.err # Nil
        THEN r @@ [authErr |-> r.err, client |-> NoClient]
        ELSE IF g.err # Nil
        THEN [r EXCEPT !.err = Wrap("failed to get access token", g.err)]
                @@ [authErr |-> Nil, client |-> NoClient]
        ELSE r @@ [authErr |-> Nil, client |-> <<NewClient(GetAPIURL(r.file), g.token)>>]

\* projectService.getAPIClient: the result of the evaluation, its error apart (authErr), and the client built (<<>> is nil)
projectService_getAPIClient(f, t, reply, d) ==
    LET r == projectService_ensureAuthenticated(f, t, reply, d)
        g == ManagerGetAccessToken(r.file, r.now)
    IN  IF r.err # Nil
        THEN r @@ [authErr |-> r.err, client |-> NoClient]
        ELSE IF g.err # Nil
        THEN [r EXCEPT !.err = Wrap("failed to get access token", g.err)]
                @@ [authErr |-> Nil, client |-> NoClient]
        ELSE r @@ [authErr |-> Nil, client |-> <<NewClient(GetAPIURL(r.file), g.token)>>]

\* Mutant: an expired session without refresh token passes as valid.
appService_ensureAuthenticated_ExpiredPasses(f, t, reply, d) ==
    LET cfg == Load(f)
        quiet == [file |-> f, now |-> t, refreshCalls |-> 0, netCalls |-> 0,
                  saved |-> FALSE, reply |-> NoReply]
    IN  IF cfg.access_token = "" /\ cfg.refresh_token = ""
        THEN quiet @@ [err |-> <<"not logged in. Please run 'kamui login' first">>]
        ELSE IF ManagerIsLoggedIn(f, t) \/ cfg.refresh_token = ""
        THEN quiet @@ [err |-> Nil]
        ELSE LET result == RefreshTokens(reply)
                 called == [quiet EXCEPT !.now = t + d, !.refreshCalls = 1, !.netCalls = 1,
                                        !.reply = reply]
             IN  IF result.err # Nil
                 THEN called @@ [err |-> Wrap("failed to refresh token",
                                              result.err \o <<"Please run 'kamui login' again">>)]
                 ELSE [called EXCEPT
                          !.file = SaveTokens(f, result.AccessToken, result.RefreshToken,
                                              result.ExpiresIn, t + d),
                          !.saved = TRUE] @@ [err |-> Nil]

\* appService.ensureAuthenticated
appService_ensureAuthenticated(f, t, reply, d) ==
    LET cfg == Load(f)
        quiet == [file |-> f, now |-> t, refreshCalls |-> 0, netCalls |-> 0,
                  saved |-> FALSE, reply |-> NoReply]
    IN  IF cfg.access_token = "" /\ cfg.refresh_token = ""
        THEN quiet @@ [err |-> <<"not logged in. Please run 'kamui login' first">>]
        ELSE IF ManagerIsLoggedIn(f, t)
        THEN quiet @@ [err |-> Nil]
        ELSE IF cfg.refresh_token = ""
        THEN quiet @@ [err |-> <<"session expired. Please run 'kamui login' again">>]
        ELSE LET result == RefreshTokens(reply)
                 called == [quiet EXCEPT !.now = t + d, !.refreshCalls = 1, !.netCalls = 1,
                                        !.reply = reply]
             IN  IF result.err # Nil
                 THEN called @@ [err |-> Wrap("failed to refresh token",
                                              result.err \o <<"Please run 'kamui login' again">>)]
                 ELSE [called EXCEPT
                          !.file = SaveTokens(f, result.AccessToken, result.RefreshToken,
                                              result.ExpiresIn, t + d),
                          !.saved = TRUE] @@ [err |-> Nil]

\* appService.getAPIClient
appService_getAPIClient(f, t, reply, d) ==
    LET r == appService_ensureAuthenticated(f, t, reply, d)
        g == ManagerGetAccessToken(r.file, r.now)
    IN  IF r.err # Nil
        THEN r @@ [authErr |-> r.err, client |-> NoClient]
        ELSE IF g.err # Nil
        THEN [r EXCEPT !.err = Wrap("failed to get access token", g.err)]
                @@ [authErr |-> Nil, client |-> NoClient]
        ELSE r @@ [authErr |-> Nil, client |-> <<NewClient(GetAPIURL(r.file), g.token)>>]

\* The operations and the service each belongs to
ProjectOperations == {"ListProjects", "GetProject"}
AppOperations ==
    {"GetInstallations", "GetBranches", "CreateApp", "ListApps", "GetApp", "DeleteApp",
     "CreateStaticApp", "CreateStaticAppUpload"}
Operations == ProjectOperations \cup AppOperations

NoRequests == <<>>

\* One call of an operation up to its request: getAPIClient, then the request
\* sent with the client.  What the platform answers is not modelled; err is
\* the error the operation returns without having sent a request.
ServiceCall ==
    /\ pc = "idle"
    /\ \E op \in Operations, reply \in RepliesFor(file, now), d \in DelaysFor(file, now) :
          \E c \in {IF op \in ProjectOperations
                   THEN projectService_getAPIClient(file, now, reply, d)
                   ELSE appService_getAPIClient(file, now, reply, d)} :
              /\ c.now <= MaxTime
              /\ file' = c.file
              /\ now' = c.now
              /\ ev' = [cmd |-> op, before |-> file, start |-> now,
                        authErr |-> c.authErr, err |-> c.err,
                        requests |-> IF c.client # NoClient
                                     THEN <<Request(c.client[1], op)>>
                                     ELSE NoRequests,
                        refreshCalls |-> c.refreshCalls, netCalls |-> c.netCalls,
                        saved |-> c.saved, reply |-> reply]
    /\ LoginVarsUnchanged

\* Records the operations can find: every state of the tokens, with the
\* client registration a Login leaves
ServiceConfigs ==
    [access_token : AccessTokenValues \cup {""},
     refresh_token : RefreshTokenValues,
     expires_at : {0, 90},
     api_url : {"", CustomAPIURL},
     client_id : {"c1"},
     client_secret : {"s1"}]

ServiceInit ==
    /\ file \in {<<>>} \cup {Save(config) : config \in ServiceConfigs}
    /\ now = 0
    /\ pc = "idle"
    /\ flow = NoFlow
    /\ codeChan = <<>>
    /\ errChan = <<>>
    /\ server = "none"
    /\ blocked = {}
    /\ registered = <<>>
    /\ platform = NoPlatform
    /\ procs = NoProcs
    /\ ev = NoEv

ServiceNext ==
    \/ Tick
    \/ GetAccessToken
    \/ ServiceCall

ServiceSpec == ServiceInit /\ [][ServiceNext]_vars

----------------------------------------------------------------------------
(* The three copies of the ensure-authenticated procedure, each run on     *)
(* every record of StoredConfigs.                                          *)

\* One call of projectService.ensureAuthenticated
ProjectEnsureAuthenticated ==
    /\ pc = "idle"
    /\ \E reply \in RepliesFor(file, now), d \in DelaysFor(file, now) :
          \E r \in {projectService_ensureAuthenticated(file, now, reply, d)} :
              /\ r.now <= MaxTime
              /\ file' = r.file
              /\ now' = r.now
              /\ ev' = [cmd |-> "projectService.ensureAuthenticated", before |-> file,
                        start |-> now, err |-> r.err,
                        refreshCalls |-> r.refreshCalls, netCalls |-> r.netCalls,
                        saved |-> r.saved, reply |-> r.reply]
    /\ LoginVarsUnchanged

\* One call of appService.ensureAuthenticated
AppEnsureAuthenticated ==
    /\ pc = "idle"
    /\ \E reply \in RepliesFor(file, now), d \in DelaysFor(file, now) :
          \E r \in {appService_ensureAuthenticated(file, now, reply, d)} :
              /\ r.now <= MaxTime
              /\ file' = r.file
              /\ now' = r.now
              /\ ev' = [cmd |-> "appService.ensureAuthenticated", before |-> file,
                        start |-> now, err |-> r.err,
                        refreshCalls |-> r.refreshCalls, netCalls |-> r.netCalls,
                        saved |-> r.saved, reply |-> r.reply]
    /\ LoginVarsUnchanged

CopiesNext ==
    \/ Tick
    \/ EnsureAuthenticated
    \/ ProjectEnsureAuthenticated
    \/ AppEnsureAuthenticated

CopiesSpec == StoreInit /\ [][CopiesNext]_vars

----------------------------------------------------------------------------
(* The claims.  ev.before and ev.start are the file and the clock a command *)
(* started from, file and now what it left.                                 *)

Returned(cmds) == ev.cmd \in cmds

\* The record a command started from, as Manager.Load returns it
Before == Load(ev.before)

\* "Valid" in the claims' words: access token present and expires_at unset or
\* more than one minute in the future
Valid(cfg, t) ==
    cfg.access_token # "" /\ (cfg.expires_at = 0 \/ cfg.expires_at > t + Minute)

\* expires_at set and at most / less than one minute ahead of t, or past
WithinBufferOrPast(cfg, t) == cfg.expires_at # 0 /\ cfg.expires_at <= t + Minute
InsideBufferOrPast(cfg, t) == cfg.expires_at # 0 /\ cfg.expires_at < t + Minute

RefreshedOnceAndExpiryFromReply ==
    /\ ev.refreshCalls = 1
    /\ ev.netCalls = 1
    /\ (ev.reply.kind = "ok" /\ ev.reply.expires_in > 0)
          => /\ ev.err = Nil
             /\ Load(file).expires_at = now + ev.reply.expires_in

C2_RefreshYieldsValidToken ==
    (/\ Returned({"GetAccessToken"})
     /\ ev.refreshCalls = 1
     /\ ev.reply.kind = "ok")
        => /\ Load(file).access_token = ev.reply.access_token
           /\ Load(file).refresh_token = ev.reply.refresh_token
           /\ Valid(Load(file), now)
           /\ ev.err = Nil
           /\ ev.token = ev.reply.access_token

\* C3: when the refresh made by EnsureAuthenticated fails (transport error or
\* a status other than 200), the call returns an error that wraps the cause
\* and ends with the "run kamui login again" guidance, RefreshTokens was
\* called once only, no token is returned, and the file is exactly what it
\* was before the call.
C3_FailedRefreshFailsCleanly ==
    (/\ Returned({"EnsureAuthenticated", "GetAccessToken"})
     /\ ev.refreshCalls > 0
     /\ ev.reply.kind \in {"transport", "status"})
        => /\ ev.refreshCalls = 1
           /\ Len(ev.err) = 4
           /\ ev.err[1] = "failed to refresh token"
           /\ ev.err[2] = (IF ev.reply.kind = "transport"
                           THEN "token refresh request failed"
                           ELSE "token refresh failed with status")
           /\ ev.err[3] = (IF ev.reply.kind = "transport" THEN "transport"
                           ELSE ev.reply.status)
           /\ ev.err[4] = "Please run 'kamui login' again"
           /\ ~ev.saved
           /\ file = ev.before
           /\ (Returned({"GetAccessToken"}) => ev.token = "")

C3_Witness ==
    /\ Returned({"GetAccessToken"})
    /\ ev.refreshCalls = 1
    /\ ev.reply.kind = "status"
    /\ Before.access_token # ""
    /\ ev.err # Nil
    /\ ev.token = ""
    /\ file = ev.before

\* C4: for every stored record with a non-empty access_token and expires_at
\* unset or more than 60 seconds ahead, EnsureAuthenticated succeeds without
\* any network call, the file is left as it was, and GetAccessToken returns
\* the stored access token.
C4_ValidNeedsNoRefresh ==
    (/\ Returned({"EnsureAuthenticated", "GetAccessToken"})
     /\ Valid(Before, ev.start))
        => /\ ev.err = Nil
           /\ ev.refreshCalls = 0
           /\ ev.netCalls = 0
           /\ file = ev.before
           /\ now = ev.start
           /\ (Returned({"GetAccessToken"}) => ev.token = Before.access_token)

C4_Witness ==
    /\ Returned({"GetAccessToken"})
    /\ Before.expires_at = 0
    /\ Before.refresh_token # ""
    /\ ev.token = Before.access_token
    /\ ev.token # ""
    /\ ev.netCalls = 0

SessionExpiredWithoutNetwork ==
    /\ ev.err = <<"session expired. Please run 'kamui login' again">>
    /\ ev.err # ErrNotLoggedIn
    /\ ev.err = ErrSessionExpired
    /\ ev.netCalls = 0
    /\ ev.refreshCalls = 0
    /\ file = ev.before

C6_LoggedOut ==
    /\ (Load(file).access_token = "" /\ Load(file).refresh_token = "")
          => ~IsLoggedIn(file)
    /\ (/\ Returned({"EnsureAuthenticated", "GetAccessToken"})
        /\ Before.access_token = ""
        /\ Before.refresh_token = "")
          => /\ ~IsLoggedIn(ev.before)
             /\ ev.err = <<"not logged in. Please run 'kamui login' first">>
             /\ ev.netCalls = 0
             /\ file = ev.before
             /\ (Returned({"GetAccessToken"}) => ev.token = "")

C6_Witness ==
    /\ Returned({"GetAccessToken"})
    /\ ev.before = <<>>
    /\ file = <<>>
    /\ ev.err = ErrNotLoggedIn
    /\ ~IsLoggedIn(file)

\* C7: across any sequence of Logins and Logouts the platform registers a
\* client at most once: RegisterClient is called only while no client id is
\* stored, and a registered client id is stored for every later Login.
C7_RegistersAtMostOnce ==
    /\ pc = "registering" => Load(file).client_id = ""
    /\ Len(registered) <= 1

ClearKeepsRegistration(f) ==
    LET old == Load(f)
        new == Load(Clear(f))
    IN  /\ new.access_token = ""
        /\ new.refresh_token = ""
        /\ new.expires_at = 0
        /\ new.client_id = old.client_id
        /\ new.client_secret = old.client_secret
        /\ new.api_url = old.api_url

\* C8: Clear followed by Load yields empty access_token and refresh_token and
\* an unset expires_at, with client_id, client_secret and api_url as Load
\* returned them before; this holds for every stored record, and a Logout
\* that succeeds leaves exactly that.
C8_ClearKeepsClient ==
    /\ ClearKeepsRegistration(file)
    /\ (Returned({"Logout"}) /\ ev.err = Nil)
          => /\ ClearKeepsRegistration(ev.before)
             /\ Load(file) = Load(Clear(ev.before))
             /\ Load(file).client_id = Before.client_id
             /\ Load(file).client_secret = Before.client_secret
             /\ Load(file).api_url = Before.api_url
             /\ ~IsLoggedIn(file)

C8_Witness ==
    /\ Returned({"Logout"})
    /\ ev.err = Nil
    /\ Before.client_id # ""
    /\ Before.client_secret # ""
    /\ Before.expires_at # 0
    /\ Load(file).client_id = Before.client_id
    /\ Load(file).api_url = CustomAPIURL
    /\ Load(file).expires_at = 0

\* C9: when authService.Login succeeds, the file holds the access and refresh
\* token the token exchange returned (expires_at = time of the save +
\* expires_in when expires_in is positive) and, if this Login registered a
\* client, the client_id and client_secret it registered; and the file is
\* not written while the flow engine is still running.
C9_LoginStoresResult ==
    /\ [](  (Returned({"Login"}) /\ ev.err = Nil)
              => LET cfg == Load(file)
                     result == ev.flow.result
                 IN  /\ result.err = Nil
                     /\ cfg.access_token = result.AccessToken
                     /\ cfg.refresh_token = result.RefreshToken
                     /\ result.ExpiresIn > 0 => cfg.expires_at = now + result.ExpiresIn
                     /\ ev.flow.storedClientID = ""
                           => /\ cfg.client_id = ClientIDs[Len(registered)]
                              /\ cfg.client_id = ev.flow.clientID
                              /\ cfg.client_secret = ev.flow.clientSecret)
    /\ [][pc # "idle" /\ pc' # "idle" => file' = file]_vars

C9_Witness ==
    /\ Returned({"Login"})
    /\ ev.err = Nil
    /\ ev.flow.storedClientID = ""
    /\ Load(file).client_id = "c2"
    /\ Load(file).client_secret = "s1"
    /\ Load(file).access_token = "A2"
    /\ Load(file).refresh_token = "R1"
    /\ Load(file).expires_at = now + 90
    /\ now > 0

InFlight == {codeChan[i] : i \in DOMAIN codeChan} \cup {errChan[i] : i \in DOMAIN errChan}
               \cup blocked

\* C10: for a listener started with nonce N, a callback request whose state
\* parameter is not exactly N makes the handler send the state-mismatch
\* error and no code, whatever its code and error parameters are; no code in
\* flight, and no code Login exchanges, came with another state than N.
C10_WrongStateDeliversNoCode ==
    /\ server = "listening"
          => \A req \in CallbackRequests :
                req.state # flow.state
                   => LET msg == HandleCallback(req, flow.state)
                      IN  /\ msg.chan = "err"
                          /\ msg.err = <<"state mismatch">>
                          /\ msg.code = ""
    /\ \A msg \in InFlight :
          /\ msg.chan = "code" => msg.state = flow.state /\ msg.code # ""
          /\ msg.chan = "err" => msg.code = ""
    /\ pc = "exchanging" => flow.codeState = flow.state /\ flow.code # ""

C10_Witness ==
    /\ server = "listening"
    /\ errChan # <<>>
    /\ errChan[1].err = <<"state mismatch">>
    /\ codeChan = <<>>
    /\ pc = "waiting"

\* C11: when the registration endpoint answers with a status other than 200
\* or 201, Login fails with an error carrying that status; no nonce was
\* generated, so no browser was opened and no callback listener started; no
\* token request was made; and the listener findAvailablePort opened on the
\* probed port was closed by it, so no port is bound when Login returns.
\* Login gets to its listener only with a client id, stored or registered.
C11_RegistrationRejected ==
    /\ pc \in {"waiting", "exchanging", "draining"} => flow.clientID # ""
    /\ (Returned({"Login"}) /\ ev.reply.kind = "status")
        => /\ ev.reply.status \notin {"200", "201"}
           /\ ev.err = <<"authentication failed", "failed to register client",
                         "client registration failed with status", ev.reply.status>>
           /\ ev.flow.port \in CandidatePorts
           /\ ev.flow.state = ""
           /\ ev.flow.clientID = ""
           /\ ev.flow.code = ""
           /\ ev.flow.result = NoResult
           /\ server = "none"
           /\ codeChan = <<>> /\ errChan = <<>> /\ blocked = {}
           /\ file = ev.before
           /\ pc = "idle"

C11_Witness ==
    /\ Returned({"Login"})
    /\ ev.reply.kind = "status"
    /\ ev.reply.status = "422"
    /\ ev.flow.port = DefaultCallbackPort + 1
    /\ server = "none"
    /\ ev.err[4] = "422"

ErrAlreadyLoggedIn == <<"already logged in. Use 'kamui logout' first to log out">>

\* C12: authService.IsLoggedIn is true exactly when access_token or
\* refresh_token is non-empty, whatever expires_at is; and a Login started
\* while it is true returns the already-logged-in error without creating a
\* flow: nothing is registered, no port probed or bound, no browser opened,
\* and the file is not written.
C12_NoDoubleLogin ==
    /\ [](IsLoggedIn(file)
            <=> (Load(file).access_token # "" \/ Load(file).refresh_token # ""))
    /\ []((Returned({"Login"}) /\ IsLoggedIn(ev.before))
            => /\ ev.err = ErrAlreadyLoggedIn
               /\ ev.flow = NoFlow
               /\ file = ev.before
               /\ server = "none"
               /\ pc = "idle")
    /\ [][(pc = "idle" /\ IsLoggedIn(file))
            => /\ pc' = "idle"
               /\ flow' = NoFlow
               /\ registered' = registered
               /\ server' = "none"
               /\ ev'.cmd = "Login" => (file' = file /\ ev'.err = ErrAlreadyLoggedIn)]_vars

C12_Witness ==
    /\ Returned({"Login"})
    /\ Before.access_token # ""
    /\ Before.expires_at # 0
    /\ Before.expires_at < now
    /\ ev.err = ErrAlreadyLoggedIn
    /\ file = ev.before
    /\ registered # <<>>

\* C13: Save followed by Load returns a record equal field for field to the
\* saved one (expires_at as the same instant), except that an empty api_url
\* comes back as the default API URL; Load with no file returns the empty
\* record with the default API URL and no error.
C13_SaveLoadRoundTrip ==
    /\ (Returned({"Load"}) /\ ev.saved # <<>>)
          => LET saved == ev.saved[1]
                 loaded == ev.config
             IN  /\ ev.err = Nil
                 /\ loaded.access_token = saved.access_token
                 /\ loaded.refresh_token = saved.refresh_token
                 /\ loaded.expires_at = saved.expires_at
                 /\ loaded.client_id = saved.client_id
                 /\ loaded.client_secret = saved.client_secret
                 /\ loaded.api_url = (IF saved.api_url = "" THEN DefaultAPIURL
                                      ELSE saved.api_url)
    /\ (Returned({"Load"}) /\ ev.before = <<>>)
          => /\ ev.err = Nil
             /\ ev.config = [access_token |-> "", refresh_token |-> "", expires_at |-> 0,
                             api_url |-> DefaultAPIURL, client_id |-> "",
                             client_secret |-> ""]

C13_Witness ==
    /\ Returned({"Load"})
    /\ ev.saved # <<>>
    /\ ev.saved[1].api_url = ""
    /\ ev.saved[1].refresh_token = ""
    /\ ev.saved[1].access_token = "A2"
    /\ ev.saved[1].expires_at = 90
    /\ DOMAIN ev.before[1] = {"access_token", "expires_at"}
    /\ ev.config.api_url = DefaultAPIURL
    /\ ev.config.access_token = "A2"

\* The apps of the platform a run of apps delete started on
AppsBefore == {AllApps(ev.before)[i] : i \in DOMAIN AllApps(ev.before)}

\* The candidates as the claim defines them: the app whose ID is the
\* argument; otherwise the apps whose app_name is the argument or starts with
\* it; only if there are none, the apps whose display name is the argument.
CandidatesByID == {app \in AppsBefore : app.ID = ev.nameOrID}
CandidatesByName ==
    {app \in AppsBefore : app.Name = ev.nameOrID \/ HasPrefix(app.Name, ev.nameOrID)}
CandidatesByDisplayName == {app \in AppsBefore : app.DisplayName = ev.nameOrID}
Candidates ==
    IF CandidatesByID # {} THEN CandidatesByID
    ELSE IF CandidatesByName # {} THEN CandidatesByName
    ELSE CandidatesByDisplayName

\* C14: apps delete <arg> resolves its target over all apps of all projects:
\* an app whose ID is arg is taken outright, otherwise the candidates are the
\* apps whose app_name is arg or starts with it, and only if there are none
\* the apps whose display name is arg.  No candidate fails with 'app not
\* found', more than one with 'please specify the app by ID', and DeleteApp
\* is called at most once, only for the one candidate, its error returned.
C14_DeleteResolvesUniquely ==
    (Returned({"AppsDelete"}) /\ ev.listed)
        => /\ Candidates = {}
                => ev.err = <<"app not found">> /\ ev.deleteCalls = NoCalls
           /\ Cardinality(Candidates) > 1
                => /\ ev.err = <<"please specify the app by ID to avoid ambiguity">>
                   /\ ev.deleteCalls = NoCalls
           /\ Len(ev.deleteCalls) <= 1
           /\ ev.deleteCalls # NoCalls
                => /\ Cardinality(Candidates) = 1
                   /\ \A app \in Candidates : app.ID = ev.deleteCalls[1]
                   /\ ev.err \in {Nil, <<"failed to delete app", "transport">>}

\* Login is past the start of its callback listener
ListenerStarted == pc \in {"waiting", "exchanging", "draining"}

\* Sends the handlers of the current listener have completed: what is in the
\* two channels and what the select has taken out of them
OutcomesSignalled ==
    Len(codeChan) + Len(errChan) + (IF flow.path \in {"code", "err"} THEN 1 ELSE 0)

\* C15: for one callback listener at most one outcome is ever signalled:
\* once a handler has delivered a code or an error, no later request to the
\* same listener delivers another code or another error.
C15_OneOutcomePerListener ==
    ListenerStarted => OutcomesSignalled <= 1

FourPaths == {"code", "err", "cancel", "timeout"}

\* C16: every Login that reaches the wait leaves it by exactly one of the
\* four cases (a code, then the token exchange; a callback error; the
\* caller's cancellation; the timeout), the listener is closed from then on,
\* no listener exists once Login has returned, and no request is handled
\* unless the listener of a running Login is open.
C16_ListenerShutDown ==
    /\ [](pc = "waiting" => flow.path = "")
    /\ [](pc = "exchanging" => flow.path = "code" /\ flow.result = NoResult)
    /\ [](pc = "draining" => flow.path \in FourPaths /\ server = "closed")
    /\ [](pc = "idle" => server = "none" /\ blocked = {})
    /\ []((Returned({"Login"}) /\ ev.flow.running /\ ev.flow.state # "")
            => /\ ev.flow.path \in FourPaths
               /\ ev.flow.path = "code" <=> ev.flow.code # ""
               /\ ev.flow.path = "cancel" <=> ev.flow.result.err = <<"context canceled">>
               /\ ev.flow.path = "timeout"
                     <=> ev.flow.result.err = <<"authentication timed out">>
               /\ server = "none"
               /\ pc = "idle")
    /\ [][(InFlight' \ InFlight) # {}
            => (server = "listening" /\ pc \in {"waiting", "exchanging"})]_vars

C16_Witness ==
    /\ Returned({"Login"})
    /\ ev.flow.running
    /\ ev.flow.path = "code"
    /\ ev.flow.first = "err"
    /\ ev.err # Nil
    /\ server = "none"

\* C17: every Login invocation eventually returns, whatever callback requests
\* its listener receives and whenever they arrive.
C17_LoginReturns == (pc # "idle") ~> (pc = "idle")

\* C18: if several of the four events occur during one wait, Login follows
\* the one that occurred first: it takes a code or an error from a channel
\* only if that was the first outcome a handler signalled, and it takes the
\* cancellation or the timeout only if no handler had signalled anything.
C18_FirstEventWins ==
    (pc \in {"exchanging", "draining"})
        => /\ flow.path \in {"code", "err"} => flow.first = flow.path
           /\ flow.path \in {"cancel", "timeout"} => flow.first = ""

\* Both invocations refreshed, wrote and returned nil
BothWrote == \A p \in Invocations : procs[p].pc = "done" /\ procs[p].order > 0

\* C19: when two invocations run EnsureAuthenticated at once on the same
\* expired record, both refresh and both write, the file afterwards holds
\* the result of the invocation whose write was second: its access token,
\* its refresh token and, when its expires_in is positive, the expiry it
\* computed; client_id, client_secret and api_url are what both loaded.
C19_SecondWriteWins ==
    (procs # NoProcs /\ BothWrote)
        => \A p \in Invocations :
              /\ procs[p].err = Nil
              /\ procs[p].order = 2
                    => /\ Readable(file)
                       /\ file = <<procs[p].data>>
                       /\ Load(file).access_token = procs[p].result.AccessToken
                       /\ Load(file).refresh_token = procs[p].result.RefreshToken
                       /\ procs[p].result.ExpiresIn > 0
                             => Load(file).expires_at = procs[p].data.expires_at
              /\ Readable(file)
                    => /\ Load(file).client_id = procs[p].cfg.client_id
                       /\ Load(file).client_secret = procs[p].cfg.client_secret
                       /\ Load(file).api_url = procs[p].cfg.api_url

\* C20: the lifecycle manager never changes a stored client registration: a
\* successful refresh changes access_token, refresh_token and expires_at
\* only, and no step of Login, Logout, EnsureAuthenticated or GetAccessToken
\* changes a stored non-empty client_id or its client_secret.
C20_ClientRegistrationKept ==
    /\ []((Returned({"EnsureAuthenticated", "GetAccessToken"}) /\ ev.saved)
            => /\ ev.refreshCalls = 1
               /\ Load(file) = [Before EXCEPT !.access_token = Load(file).access_token,
                                              !.refresh_token = Load(file).refresh_token,
                                              !.expires_at = Load(file).expires_at])
    /\ [][Load(file).client_id # ""
            => /\ Load(file').client_id = Load(file).client_id
               /\ Load(file').client_secret = Load(file).client_secret]_vars

C20_Witness ==
    /\ Returned({"GetAccessToken"})
    /\ ev.saved
    /\ Before.client_id = "c1"
    /\ Before.client_secret = "s1"
    /\ Load(file).client_id = "c1"
    /\ Load(file).client_secret = "s1"
    /\ Load(file).access_token # Before.access_token
    /\ Load(file).expires_at # Before.expires_at

\* C21: a Login that fails at any step (no free port, registration failure,
\* callback error, timeout, cancellation, token-exchange failure) writes
\* nothing to the credential store: no step of a Login other than its
\* successful return changes the file, and when Login returns an error the
\* stored record, client_id and client_secret included, is what it was, even
\* if this Login registered a client.
C21_FailedLoginWritesNothing ==
    /\ []((Returned({"Login"}) /\ ev.err # Nil)
            => /\ file = ev.before
               /\ Load(file) = Before
               /\ (ev.flow # NoFlow /\ ev.flow.storedClientID = "")
                     => Load(file).client_id = "" /\ Load(file).client_secret = "")
    /\ [][((pc # "idle" \/ pc' # "idle") /\ ~(ev'.cmd = "Login" /\ ev'.err = Nil))
            => file' = file]_vars

C21_Witness ==
    /\ Returned({"Login"})
    /\ ev.err = <<"authentication failed", "token exchange failed with status", "401">>
    /\ ev.flow.storedClientID = ""
    /\ ev.flow.clientID = "c1"
    /\ registered # <<>>
    /\ Load(file).client_id = ""
    /\ file = ev.before

\* What authService.EnsureAuthenticated does on the inputs the operation that
\* just returned had
FullEvaluation == EnsureAuthenticatedResult(ev.before, ev.start, ev.reply, now - ev.start)

\* C22: every API-backed operation of projectService and appService runs the
\* full ensure-authenticated evaluation first (same error, same refresh call,
\* same record stored as authService.EnsureAuthenticated), sends no request
\* when the evaluation fails and returns its error, and sends at most one
\* request, whose bearer token is the access token stored after the
\* evaluation: the one the refresh returned if there was a refresh.
C22_OperationsGated ==
    Returned(Operations)
        => /\ ev.authErr = FullEvaluation.err
           /\ ev.refreshCalls = FullEvaluation.refreshCalls
           /\ file = FullEvaluation.file
           /\ ev.authErr # Nil => (ev.requests = NoRequests /\ ev.err = ev.authErr)
           /\ Len(ev.requests) <= 1
           /\ \A i \in DOMAIN ev.requests :
                 /\ ev.authErr = Nil
                 /\ ev.requests[i].op = ev.cmd
                 /\ Load(file).access_token # ""
                 /\ ev.requests[i].Authorization = <<"Bearer", Load(file).access_token>>
                 /\ ev.saved => ev.requests[i].Authorization[2] = ev.reply.access_token

C22_Witness ==
    /\ Returned({"GetProject"})
    /\ ev.saved
    /\ ev.requests # NoRequests
    /\ Before.access_token = "A1"
    /\ ev.requests[1].Authorization = <<"Bearer", "A2">>
    /\ Load(file).access_token = "A2"
    /\ ev.err = Nil

\* expires_at unset, or not before t
NotPast(cfg, t) == cfg.expires_at = 0 \/ cfg.expires_at >= t

Lowest(ports) == CHOOSE p \in ports : \A q \in ports : p <= q

\* C24: findAvailablePort tries the ten ports 9876..9885 in ascending order
\* and returns the lowest one that can be bound, leaving it unbound; it
\* fails with 'no available port found' exactly when none of the ten can be
\* bound, and Login then fails before any network call; the redirect URI of
\* a Login is http://localhost:<returned port>/callback.
C24_LowestFreePort ==
    /\ CandidatePorts = 9876 .. 9885
    /\ Returned({"findAvailablePort"})
          => LET free == CandidatePorts \ ev.busy
             IN  /\ free = {} <=> ev.err = <<"no available port found">>
                 /\ free = {} <=> ev.port = 0
                 /\ free # {} => (ev.err = Nil /\ ev.port = Lowest(free))
                 /\ server = "none"
    /\ (Returned({"Login"}) /\ ev.flow # NoFlow /\ ev.flow.port = 0)
          => /\ ev.err = <<"authentication failed", "failed to find available port",
                           "no available port found">>
             /\ ev.reply = NoReply
             /\ ev.flow.clientID = ev.flow.storedClientID
             /\ ev.flow.authURL = <<>> /\ ev.flow.tokenRequest = <<>>
             /\ file = ev.before
    /\ pc \in {"registering", "waiting", "exchanging", "draining"}
          => flow.port \in CandidatePorts
    /\ pc \in {"waiting", "exchanging", "draining"}
          => flow.authURL[1].redirect_uri = <<"http://localhost:", flow.port, "/callback">>

C24_Witness ==
    /\ Returned({"findAvailablePort"})
    /\ ev.busy = CandidatePorts \ {9879, 9883}
    /\ ev.port = 9879

\* C25: the callback handler checks state, then error, then code.  With the
\* listener's state, a request with an error parameter signals an error made
\* of the error code and description and delivers no code, even when it
\* carries a code; with the listener's state and no error, a missing or
\* empty code signals 'no authorization code received'; only a request with
\* the listener's state, no error and a non-empty code delivers that code.
C25_StateThenErrorThenCode ==
    /\ server = "listening"
          => \A req \in CallbackRequests :
                LET msg == HandleCallback(req, flow.state)
                IN  /\ (req.state = flow.state /\ req.error # "")
                          => /\ msg.chan = "err"
                             /\ msg.err = <<"OAuth error", req.error, req.error_description>>
                             /\ msg.code = ""
                    /\ (req.state = flow.state /\ req.error = "" /\ req.code = "")
                          => /\ msg.chan = "err"
                             /\ msg.err = <<"no authorization code received">>
                             /\ msg.code = ""
                    /\ msg.chan = "code"
                          <=> (req.state = flow.state /\ req.error = "" /\ req.code # "")
                    /\ msg.chan = "code" => (msg.code = req.code /\ msg.err = Nil)
    /\ \A msg \in InFlight :
          /\ msg.chan = "err"
                => /\ msg.code = ""
                   /\ msg.err \in {<<"state mismatch">>, <<"no authorization code received">>,
                                   <<"OAuth error", "access_denied", "denied">>}
          /\ msg.chan = "code" => (msg.code = "code1" /\ msg.err = Nil)

C25_Witness ==
    /\ server = "listening"
    /\ pc = "waiting"
    /\ errChan # <<>>
    /\ errChan[1].err = <<"OAuth error", "access_denied", "denied">>
    /\ codeChan = <<>>
    /\ blocked = {[chan |-> "err", err |-> <<"no authorization code received">>,
                   code |-> "", state |-> ""]}
    /\ HandleCallback([state |-> flow.state, error |-> "access_denied",
                       error_description |-> "denied", code |-> "code1"],
                      flow.state).chan = "err"

\* EnsureAuthenticated on file f at time t reports the session as expired
ReportedExpired(f, t) == EnsureAuthenticatedResult(f, t, NoReply, 0).err = ErrSessionExpired

\* C26: a stored record that EnsureAuthenticated reports as 'session
\* expired. Please run kamui login again' (expired access token, no refresh
\* token) can be recovered by that very action: a Login started on it is
\* not turned away as already logged in, and when it succeeds the stored
\* record is Valid.
C26_LoginRecoversExpiredSession ==
    (Returned({"Login"}) /\ ReportedExpired(ev.before, now))
        => /\ ev.err # ErrAlreadyLoggedIn
           /\ ev.flow # NoFlow

\* The redirect URIs the platform holds for client id c
RegisteredRedirects(c) ==
    {RedirectURI(registered[i]) : i \in {j \in DOMAIN registered : ClientIDs[j] = c}}

\* C27: in every Login the authorization URL and the token exchange carry
\* the same redirect_uri, and it is a redirect URI registered for the client
\* id in use, whether that client was registered by this Login or loaded
\* from the store.
C27_RedirectURIRegistered ==
    pc \in {"waiting", "exchanging", "draining"}
        => /\ flow.authURL # <<>>
           /\ flow.authURL[1].client_id = flow.clientID
           /\ flow.authURL[1].redirect_uri \in RegisteredRedirects(flow.clientID)
           /\ flow.tokenRequest # <<>>
                 => /\ flow.tokenRequest[1].redirect_uri = flow.authURL[1].redirect_uri
                    /\ flow.tokenRequest[1].client_id = flow.clientID

Copies ==
    {"EnsureAuthenticated", "projectService.ensureAuthenticated",
     "appService.ensureAuthenticated"}

\* C28: authService.EnsureAuthenticated, projectService.ensureAuthenticated
\* and appService.ensureAuthenticated are equivalent: for every stored
\* record, clock value and refresh outcome the three return the same success
\* or error, make the same refresh call and leave the same stored record;
\* this holds on the inputs of every call made and on every record and clock
\* value reached.
C28_ThreeCopiesEquivalent ==
    /\ \A reply \in RepliesFor(file, now), d \in DelaysFor(file, now) :
          LET a == EnsureAuthenticatedResult(file, now, reply, d)
          IN  /\ projectService_ensureAuthenticated(file, now, reply, d) = a
              /\ appService_ensureAuthenticated(file, now, reply, d) = a
    /\ Returned(Copies)
          => LET d == now - ev.start
                 a == EnsureAuthenticatedResult(ev.before, ev.start, ev.reply, d)
                 p == projectService_ensureAuthenticated(ev.before, ev.start, ev.reply, d)
                 q == appService_ensureAuthenticated(ev.before, ev.start, ev.reply, d)
             IN  /\ a.err = ev.err /\ p.err = ev.err /\ q.err = ev.err
                 /\ a.refreshCalls = ev.refreshCalls /\ p.refreshCalls = ev.refreshCalls
                 /\ q.refreshCalls = ev.refreshCalls
                 /\ a.file = file /\ p.file = file /\ q.file = file

C28_Witness ==
    /\ Returned({"appService.ensureAuthenticated"})
    /\ ev.saved
    /\ ev.refreshCalls = 1
    /\ Before.client_id = ""
    /\ Before.access_token = ""
    /\ file # ev.before
    /\ EnsureAuthenticatedResult(ev.before, ev.start, ev.reply, now - ev.start).file = file
    /\ projectService_ensureAuthenticated(ev.before, ev.start, ev.reply, now - ev.start).file
          = file

\* C29: every authorization URL and every token-exchange request of a Login
\* carries a non-empty client_id: once the registration step is past, the
\* flow holds a non-empty client id, whatever 200 or 201 response the
\* registration endpoint gave.
C29_ClientIDNeverEmpty ==
    pc \in {"waiting", "exchanging", "draining"}
        => /\ flow.clientID # ""
           /\ \A i \in DOMAIN flow.authURL : flow.authURL[i].client_id # ""
           /\ \A i \in DOMAIN flow.tokenRequest : flow.tokenRequest[i].client_id # ""

\* C30: whenever Login is waiting for the callback, its listener is bound to
\* the port the probe returned, the port of the redirect URI; a listener
\* that could not bind it, because another process took the port after the
\* probe released it, makes Login end with an error, not wait.
C30_ListenerBoundWhileWaiting ==
    pc = "waiting"
        => /\ server = "listening"
           /\ flow.authURL[1].redirect_uri = RedirectURI(flow.port)

====
